---- MODULE Spec2Model ----
(***************************************************************************)
(* Order-processing workflow of the business-management backend:          *)
(* create_order, update_order_status and cancel_order                     *)
(* (backend/app/routes/order_routes.py) over the Order, OrderItem and     *)
(* Product models (backend/app/models), against a transactional store.    *)
(*                                                                         *)
(* Store model.  Every request works in its own ORM session: a row is     *)
(* read from the committed store the first time the request touches it    *)
(* and is then served from the session's identity map; attribute changes  *)
(* stay in the session until db.session.commit() writes the changed       *)
(* columns back as plain values.  A request that returns without commit,  *)
(* or that reaches db.session.rollback(), leaves the committed store as   *)
(* it was: the session is scoped to the request and removed at its end.   *)
(*                                                                         *)
(* Money is counted in cents.                                              *)
(***************************************************************************)
EXTENDS Integers, Sequences, FiniteSets, TLC

\* ------------------------------------------------------------------ bounds
\* lines of a create request of Spec
MaxItems == 2
\* orders created in LedgerSpec and ConcSpec
MaxOrders == 2
\* orders created in Spec and ClockSpec
MaxTrackedOrders == 1
\* last value of the clock
MaxTime == 2
\* values the generated order number may take
MaxOrderNumber == 2
\* requests of one worker in ConcSpec
MaxProcRequests == 2
\* calls of calculate_totals on one order in TotalsSpec, and of reduce_stock
\* in ReserveSpec
MaxCalls == 2
\* largest stock a product starts with in ReserveSpec
MaxStock == 2

\* ------------------------------------------------------- tables and inputs
\* ids of the rows of the products table, and the ids a request may name
Products == {1, 2}
ProductIds == {1, 2, 3}
\* ids of the rows of the customers table, and what a request may carry
\* (0 stands for an absent or falsy customer_id)
Customers == {1}
CustomerIds == {0, 1, 2}
\* product.price of each product before the first request, in cents
Price == [p \in Products |-> IF p = 1 THEN 1999 ELSE 250]
\* stock_quantity of each product before the first request
InitStock == [p \in Products |-> p]
\* values of the generated order number
OrderNumbers == 1..MaxOrderNumber
\* order ids a request may name: the allocated ones and one that is not
OrderIds == 1..(MaxOrders + 1)
\* a NULL timestamp
NoDate == 0

STATUS_PENDING == "Pending"
STATUS_PROCESSING == "Processing"
STATUS_SHIPPED == "Shipped"
STATUS_DELIVERED == "Delivered"
STATUS_CANCELLED == "Cancelled"
VALID_STATUSES ==
    {STATUS_PENDING, STATUS_PROCESSING, STATUS_SHIPPED, STATUS_DELIVERED, STATUS_CANCELLED}
\* what the "status" field of a status request may be: a valid status, an
\* absent one ("") or an unknown one
RequestStatuses == VALID_STATUSES \cup {"", "Refunded"}

TaxPercent == 8

SeqsUpTo(S, n) == UNION {[1..k -> S] : k \in 0..n}

\* one entry of the "items" array: the keys it has and their values
ItemRequest(p, q) == [keys |-> {"product_id", "quantity"}, product_id |-> p, quantity |-> q]
MalformedItem == [keys |-> {"product_id"}, product_id |-> 1, quantity |-> 0]

\* the test of an entry, had it looked for product_id only
WellFormedMut(item) == "product_id" \in item.keys

\* line 98: all(key in item_data for key in ['product_id', 'quantity'])
WellFormed(item) == {"product_id", "quantity"} \subseteq item.keys

\* create_order stops reading the array at an entry that lacks a key or names
\* no product: arrays are taken with such an entry in the last place, but for
\* the arrays of StoppedLists
Stops(item) == item.keys # {"product_id", "quantity"} \/ item.product_id \notin Products
ItemLists(S, n) ==
    {l \in SeqsUpTo(S, n) : \A k \in 1..Len(l) : Stops(l[k]) => k = Len(l)}

\* the entries of the create requests of Spec
ItemRequests ==
    {ItemRequest(1, 1), ItemRequest(2, 1), ItemRequest(3, 1), MalformedItem}

\* arrays in which the entry at which create_order stops is followed by
\* another one that would stop it too: a product that is missing or short of
\* stock before an entry without quantity or a missing product
StoppedLists ==
    {<<ItemRequest(3, 1), MalformedItem>>, <<ItemRequest(1, 2), MalformedItem>>,
     <<ItemRequest(1, 2), ItemRequest(3, 1)>>}

\* A create request.  order_number is the value generate_order_number draws for
\* it; totals_ok is whether the arithmetic of calculate_totals completes;
\* shipping_amount is in cents.
\* A request without a known customer is refused once its items are known to
\* be empty or not; such requests are taken with at most one line.
CreateRequests ==
    {d \in [customer_id : CustomerIds,
            items : ItemLists(ItemRequests, MaxItems) \cup StoppedLists,
            order_number : OrderNumbers, totals_ok : BOOLEAN,
            shipping_amount : {0}] :
        d.customer_id \notin Customers =>
            (Len(d.items) <= 1 /\ d.order_number = 1 /\ d.totals_ok)}

\* the create requests of LedgerSpec and ClockSpec: one well-formed line for a
\* known customer and product, of a quantity that may be negative
SimpleItems == {ItemRequest(1, -1), ItemRequest(1, 2), ItemRequest(2, 1)}
SimpleRequests ==
    [customer_id : Customers, items : {<<i>> : i \in SimpleItems},
     order_number : OrderNumbers, totals_ok : {TRUE}, shipping_amount : {0}]

\* the create requests of PriceSpec: well-formed lines of known products for
\* a known customer, with or without a shipping amount, in the runs in which
\* calculate_totals completes
PricedItems == {ItemRequest(1, 1), ItemRequest(2, 2)}
ShippingAmounts == {599}
PricedRequests ==
    [customer_id : Customers, items : ItemLists(PricedItems, MaxItems) \ {<<>>},
     order_number : OrderNumbers, totals_ok : {TRUE}, shipping_amount : ShippingAmounts]

\* the body of a product update: the fields it has and their values
NewPrices == {999}
NewStocks == {-1, 3}
ProductUpdates ==
    [keys : SUBSET {"price", "stock_quantity"}, price : NewPrices,
     stock_quantity : NewStocks]
PriceUpdates == {d \in ProductUpdates : d.keys = {"price"}}

\* the body of a stock adjustment: action ("" if absent) and quantity (0 if
\* absent), any integer being taken for a quantity
StockActions == {"", "add", "subtract", "set"}
StockQuantities == {-2, 0, 1, 3}
StockUpdates == [action : StockActions, quantity : StockQuantities]

\* ----------------------------------------------------------------- state
VARIABLES
    stock,     \* committed products.stock_quantity, by product id
    price,     \* committed products.price, by product id
    orders,    \* committed orders with their order_items, by order id
    nextId,    \* next value of the orders id sequence
    now,       \* the clock read by datetime.utcnow()
    resp,      \* the response to the last completed request
    pre,       \* the committed stock when that request began
    sess,      \* ConcSpec: the request each worker is handling
    nreq       \* ConcSpec: requests each worker has completed

vars == <<stock, price, orders, nextId, now, resp, pre, sess, nreq>>

Procs == {1, 2}

\* A response: the operation, the HTTP code, the error, the order the request
\* named or created (0 if none), the status a status request asked for, and
\* the entry of the items array at which create_order returned (0 if none)
NoResp ==
    [op |-> "none", code |-> 0, error |-> "", order_id |-> 0, status |-> "", at |-> 0]

NoOrder ==
    [id |-> 0, order_number |-> 0, customer_id |-> 0, status |-> "",
     items |-> <<>>, subtotal |-> 0, tax_amount |-> 0, shipping_amount |-> 0,
     total_amount |-> 0, created_at |-> NoDate, updated_at |-> NoDate,
     shipped_date |-> NoDate, delivered_date |-> NoDate]

NoProductData == [keys |-> {}, price |-> 0, stock_quantity |-> 0]

NoData ==
    [customer_id |-> 0, items |-> <<>>, order_number |-> 0, totals_ok |-> TRUE,
     shipping_amount |-> 0]

\* ------------------------------------------------------------ Product model
\* reduce_stock, had it reported success without taking the quantity off
reduce_stockMut(s, q) ==
    IF s >= q THEN [stock |-> s, ok |-> TRUE] ELSE [stock |-> s, ok |-> FALSE]

\* Product.reduce_stock: the new stock and the value returned
reduce_stock(s, q) ==
    IF s >= q THEN [stock |-> s - q, ok |-> TRUE] ELSE [stock |-> s, ok |-> FALSE]

\* increase_stock, had it put back twice the quantity
increase_stockMut(s, q) == s + 2 * q

\* Product.increase_stock
increase_stock(s, q) == s + q

\* -------------------------------------------------------------- Order model
\* the transition table, had Delivered been given Cancelled as a target
valid_transitionsMut(status) ==
    CASE status = STATUS_PENDING -> {STATUS_PROCESSING, STATUS_CANCELLED}
      [] status = STATUS_PROCESSING -> {STATUS_SHIPPED, STATUS_CANCELLED}
      [] status = STATUS_SHIPPED -> {STATUS_DELIVERED}
      [] status = STATUS_DELIVERED -> {STATUS_CANCELLED}
      [] status = STATUS_CANCELLED -> {}
      [] OTHER -> {}

\* valid_transitions in Order.can_transition_to
valid_transitions(status) ==
    CASE status = STATUS_PENDING -> {STATUS_PROCESSING, STATUS_CANCELLED}
      [] status = STATUS_PROCESSING -> {STATUS_SHIPPED, STATUS_CANCELLED}
      [] status = STATUS_SHIPPED -> {STATUS_DELIVERED}
      [] status = STATUS_DELIVERED -> {}
      [] status = STATUS_CANCELLED -> {}
      [] OTHER -> {}

\* can_transition_to, had it also let an order stay in or skip past a status
can_transition_toMut(order, new_status) ==
    \/ new_status \in valid_transitions(order.status)
    \/ new_status = order.status
    \/ order.status = STATUS_PENDING /\ new_status = STATUS_SHIPPED

\* Order.can_transition_to
can_transition_to(order, new_status) == new_status \in valid_transitions(order.status)

\* update_status, had it stamped shipped_date on delivery as well
update_statusMut(order, new_status, t) ==
    IF ~can_transition_to(order, new_status)
    THEN [order |-> order, ok |-> FALSE]
    ELSE [order |-> [order EXCEPT
                        !.status = new_status,
                        !.updated_at = t,
                        !.shipped_date =
                            IF new_status \in {STATUS_SHIPPED, STATUS_DELIVERED} THEN t ELSE @,
                        !.delivered_date = IF new_status = STATUS_DELIVERED THEN t ELSE @],
          ok |-> TRUE]

\* Order.update_status: the order afterwards and the value returned
update_status(order, new_status, t) ==
    IF ~can_transition_to(order, new_status)
    THEN [order |-> order, ok |-> FALSE]
    ELSE [order |-> [order EXCEPT
                        !.status = new_status,
                        !.updated_at = t,
                        !.shipped_date = IF new_status = STATUS_SHIPPED THEN t ELSE @,
                        !.delivered_date = IF new_status = STATUS_DELIVERED THEN t ELSE @],
          ok |-> TRUE]

\* OrderItem.calculate_line_total
calculate_line_total(item) == [item EXCEPT !.line_total = item.quantity * item.unit_price]

RECURSIVE SumLineTotals(_)
SumLineTotals(items) ==
    IF items = <<>> THEN 0 ELSE Head(items).line_total + SumLineTotals(Tail(items))

\* n / d rounded to the nearest integer, halves away from zero: what a
\* Numeric(10, 2) column keeps of a value with more than two decimals
RoundDiv(n, d) ==
    IF n >= 0 THEN (2 * n + d) \div (2 * d) ELSE 0 - ((2 * (0 - n) + d) \div (2 * d))

\* calculate_totals, had it added the line totals to the subtotal it found
calculate_totalsMut(order) ==
    LET sub == order.subtotal + SumLineTotals(order.items)
    IN  [order EXCEPT
            !.subtotal = sub,
            !.tax_amount = RoundDiv(sub * TaxPercent, 100),
            !.total_amount =
                RoundDiv(sub * 100 + sub * TaxPercent + order.shipping_amount * 100, 100)]

\* Order.calculate_totals, with the amounts as the Numeric(10, 2) columns store them
calculate_totals(order) ==
    LET sub == SumLineTotals(order.items)
    IN  [order EXCEPT
            !.subtotal = sub,
            !.tax_amount = RoundDiv(sub * TaxPercent, 100),
            !.total_amount =
                RoundDiv(sub * 100 + sub * TaxPercent + order.shipping_amount * 100, 100)]

\* Order.calculate_totals in the run in which line 100 raises TypeError: the
\* subtotal has been assigned, the other two amounts have not
calculate_totals_raising(order) ==
    [order EXCEPT !.subtotal = SumLineTotals(order.items)]

\* quantity of product p on the lines of an order
RECURSIVE LineQuantity(_, _)
LineQuantity(items, p) ==
    IF items = <<>> THEN 0
    ELSE (IF Head(items).product_id = p THEN Head(items).quantity ELSE 0)
         + LineQuantity(Tail(items), p)

\* ------------------------------------------------------ sessions and store
\* A request in progress: its input, its place in the handler (pc), the
\* product rows its session has loaded (loaded, their stock as read: orig, and
\* as the session has it now: cur), the order it builds or has loaded, and
\* its response once it has one.
NoTxn ==
    [op |-> "none", pc |-> "idle", data |-> NoData, pdata |-> NoProductData,
     oid |-> 0, new_status |-> "",
     i |-> 1, loaded |-> {}, orig |-> [p \in Products |-> 0],
     cur |-> [p \in Products |-> 0], price0 |-> [p \in Products |-> 0],
     price |-> [p \in Products |-> 0],
     order |-> NoOrder, read |-> NoOrder,
     ret |-> NoResp]

NewCreate(data) == [NoTxn EXCEPT !.op = "create", !.pc = "begin", !.data = data]
NewCancel(oid) == [NoTxn EXCEPT !.op = "cancel", !.pc = "begin", !.oid = oid]
NewUpdate(oid, new_status) ==
    [NoTxn EXCEPT !.op = "update", !.pc = "begin", !.oid = oid, !.new_status = new_status]
NewUpdateProduct(pid, pdata) ==
    [NoTxn EXCEPT !.op = "product", !.pc = "begin", !.oid = pid, !.pdata = pdata]
NewUpdateStock(pid, sdata) ==
    [NoTxn EXCEPT !.op = "stock", !.pc = "begin", !.oid = pid, !.pdata = sdata]

\* Product.query.get / item.product: the row comes from the identity map if
\* the session has it, and from the committed store otherwise
Load(st, p) ==
    IF p \in st.t.loaded THEN st
    ELSE [st EXCEPT !.t.loaded = @ \cup {p},
                    !.t.orig[p] = st.db.stock[p],
                    !.t.cur[p] = st.db.stock[p],
                    !.t.price0[p] = st.db.price[p],
                    !.t.price[p] = st.db.price[p]]

\* The store once the session's pending changes are written to it: the stock
\* and the price of every product of which the session changed them, the order the
\* session created, and the changed columns of the order it loaded.
Flushed(st) ==
    LET t == st.t
        newStock == [p \in Products |->
                        IF p \in t.loaded /\ t.cur[p] # t.orig[p]
                        THEN t.cur[p] ELSE st.db.stock[p]]
        newPrice == [p \in Products |->
                        IF p \in t.loaded /\ t.price[p] # t.price0[p]
                        THEN t.price[p] ELSE st.db.price[p]]
        newOrders ==
            IF t.order.id = 0 THEN st.db.orders
            ELSE IF t.op = "create"
                 THEN [o \in DOMAIN st.db.orders \cup {t.order.id} |->
                          IF o = t.order.id THEN t.order ELSE st.db.orders[o]]
            ELSE IF t.order = t.read THEN st.db.orders
            ELSE [st.db.orders EXCEPT
                     ![t.order.id].status = t.order.status,
                     ![t.order.id].updated_at = t.order.updated_at,
                     ![t.order.id].shipped_date = t.order.shipped_date,
                     ![t.order.id].delivered_date = t.order.delivered_date]
    IN  [stock |-> newStock, price |-> newPrice, orders |-> newOrders]

\* db.session.commit()
Commit(st) == Flushed(st)

\* db.session.rollback() in the except clause
Rollback(st) == st.db

\* A return without commit: the request's session is removed with the request
\* and what it had pending is dropped
SessionRemove(st) == st.db

Response(st, code, err) ==
    [op |-> st.t.op, code |-> code, error |-> err,
     order_id |-> IF st.t.op = "create"
                  THEN (IF code = 201 THEN st.t.order.id ELSE 0)
                  ELSE st.t.oid,
     status |-> st.t.new_status,
     at |-> IF st.t.op = "create" /\ st.t.pc = "item" THEN st.t.i ELSE 0]

\* Return, had the handler committed before returning the error
ReturnMut(st, code, err) ==
    [st EXCEPT !.db = Commit(st), !.t.pc = "done",
               !.t.ret = Response(st, code, err)]

\* return jsonify({'error': ...}), code   (no commit)
Return(st, code, err) ==
    [st EXCEPT !.db = SessionRemove(st), !.t.pc = "done",
               !.t.ret = Response(st, code, err)]

\* an exception reaching `except Exception`: rollback and HTTP 500
Raise(st, err) ==
    [st EXCEPT !.db = Rollback(st), !.t.pc = "done",
               !.t.ret = Response(st, 500, err)]

\* commit and the success response
CommitAndReturn(st, code) ==
    [st EXCEPT !.db = Commit(st), !.t.pc = "done",
               !.t.ret = Response(st, code, "")]

\* the test of the order number, had the column had no unique index
NumberTakenMut(db, number) == FALSE

\* the unique index on orders.order_number: some committed order has the number
NumberTaken(db, number) == \E o \in DOMAIN db.orders : db.orders[o].order_number = number

\* ------------------------------------------------------------- create_order
\* the lookup, had it taken any customer id for that of a customer
CustomerFoundMut(id) == TRUE

\* lines 75-76: Customer.query.get(data['customer_id']) finds a row
CustomerFound(id) == id \in Customers

\* lines 65-94: validation, customer lookup, the new Order and its flush
CreateBegin(st) ==
    LET d == st.t.data IN
    IF d.customer_id = 0 THEN Return(st, 400, "customer_id is required")
    ELSE IF d.items = <<>> THEN Return(st, 400, "items array is required")
    ELSE IF ~CustomerFound(d.customer_id) THEN Return(st, 404, "Customer not found")
    ELSE IF NumberTaken(st.db, d.order_number)
         THEN [Raise(st, "IntegrityError") EXCEPT !.nextId = st.nextId + 1]
    ELSE [st EXCEPT
            !.nextId = st.nextId + 1,
            !.t.pc = "item",
            !.t.order = [NoOrder EXCEPT
                            !.id = st.nextId,
                            !.order_number = d.order_number,
                            !.customer_id = d.customer_id,
                            !.status = STATUS_PENDING,
                            !.shipping_amount = d.shipping_amount,
                            !.created_at = st.now,
                            !.updated_at = st.now]]

\* the unit price, had it been the price the product had before any update
UnitPriceMut(t, p) == Price[p]

\* line 114: unit_price=product.price, of the row as the session holds it
UnitPrice(t, p) == t.price[p]

\* the stock test, had it asked for more than the quantity
InStockMut(s, q) == s > q

\* line 106: the stock test of create_order, product.stock_quantity < quantity
\* being the failure
InStock(s, q) == ~(s < q)

\* lines 97-121: one pass of the loop over data['items']
CreateItem(st) ==
    LET item == st.t.data.items[st.t.i] IN
    IF ~WellFormed(item)
    THEN Return(st, 400, "Each item must have product_id and quantity")
    ELSE IF item.product_id \notin Products THEN Return(st, 404, "Product not found")
    ELSE
      LET p == item.product_id
          q == item.quantity
          s1 == Load(st, p)
          order_item == calculate_line_total(
                            [product_id |-> p, quantity |-> q,
                             unit_price |-> UnitPrice(s1.t, p), line_total |-> 0])
      IN  IF ~InStock(s1.t.cur[p], q) THEN Return(s1, 400, "Insufficient stock")
          ELSE [s1 EXCEPT
                  !.t.cur[p] = reduce_stock(s1.t.cur[p], q).stock,
                  !.t.order.items = Append(@, order_item),
                  !.t.i = @ + 1,
                  !.t.pc = IF st.t.i = Len(st.t.data.items) THEN "finish" ELSE "item"]

\* lines 124-128: the totals, the commit and the response.  subtotal * 0.08
\* multiplies the Decimal of a Numeric column by a float, which raises
\* TypeError; totals_ok = TRUE is the run in which the product is computed.
\* The unique index on order_number rejects the row if another request has
\* committed the same number since the flush.
CreateFinish(st) ==
    IF ~st.t.data.totals_ok THEN Raise(st, "TypeError")
    ELSE IF NumberTaken(st.db, st.t.order.order_number) THEN Raise(st, "IntegrityError")
    ELSE CommitAndReturn([st EXCEPT !.t.order = calculate_totals(@)], 201)

\* ------------------------------------------------------------- cancel_order
\* the test, had cancel_order followed the transition table
CancellableMut(order) == can_transition_to(order, STATUS_CANCELLED)

\* line 163: the test cancel_order makes of the order's status
Cancellable(order) == order.status = STATUS_PENDING

\* lines 161-164: the lookup (get_or_404 raises inside the try) and the
\* status test
CancelBegin(st) ==
    IF st.t.oid \notin DOMAIN st.db.orders THEN Raise(st, "404 Not Found")
    ELSE
      LET order == st.db.orders[st.t.oid]
          s1 == [st EXCEPT !.t.order = order, !.t.read = order]
      IN  IF ~Cancellable(order)
          THEN Return(s1, 400, "Only pending orders can be cancelled")
          ELSE [s1 EXCEPT !.t.pc = IF order.items = <<>> THEN "finish" ELSE "item"]

\* lines 167-168: one pass of the loop over order.items
CancelItem(st) ==
    LET item == st.t.order.items[st.t.i]
        p == item.product_id
        s1 == Load(st, p)
    IN  [s1 EXCEPT
            !.t.cur[p] = increase_stock(s1.t.cur[p], item.quantity),
            !.t.i = @ + 1,
            !.t.pc = IF st.t.i = Len(st.t.order.items) THEN "finish" ELSE "item"]

\* lines 171-175: the status change (its result is not looked at), the commit
CancelFinish(st) ==
    CommitAndReturn(
        [st EXCEPT !.t.order = update_status(@, STATUS_CANCELLED, st.now).order], 200)

\* ------------------------------------------------------ update_order_status
\* UpdateApply, had a transition to Cancelled put the order's lines back in stock
UpdateApplyMut(st, order) ==
    CommitAndReturn(
        [st EXCEPT
            !.t.order = order,
            !.t.loaded = Products,
            !.t.orig = st.db.stock,
            !.t.cur = [p \in Products |->
                          IF order.status = STATUS_CANCELLED
                          THEN increase_stock(st.db.stock[p], LineQuantity(order.items, p))
                          ELSE st.db.stock[p]]],
        200)

\* lines 147-152: the order as update_status left it is committed; nothing
\* else of the session has changed
UpdateApply(st, order) == CommitAndReturn([st EXCEPT !.t.order = order], 200)

\* lines 137-152
UpdateBegin(st) ==
    IF st.t.oid \notin DOMAIN st.db.orders THEN Raise(st, "404 Not Found")
    ELSE
      LET order == st.db.orders[st.t.oid]
          s1 == [st EXCEPT !.t.order = order, !.t.read = order]
          new_status == st.t.new_status
          upd == update_status(order, new_status, st.now)
      IN  IF new_status = ""
          THEN Return(s1, 400, "status is required")
          ELSE IF new_status \notin VALID_STATUSES THEN Return(s1, 400, "Invalid status")
          ELSE IF ~upd.ok THEN Return(s1, 400, "Cannot transition")
          ELSE UpdateApply(s1, upd.order)

\* ----------------------------------------------------------- update_product
\* lines 114-115: the lookup (get_or_404 raises inside the try)
ProductBegin(st) ==
    IF st.t.oid \notin Products THEN Raise(st, "404 Not Found")
    ELSE [Load(st, st.t.oid) EXCEPT !.t.pc = "finish"]

\* lines 129-135: the fields of the body are set on the row and committed
ProductFinish(st) ==
    LET p == st.t.oid
        d == st.t.pdata
    IN  CommitAndReturn(
            [st EXCEPT
                !.t.price[p] = IF "price" \in d.keys THEN d.price ELSE @,
                !.t.cur[p] = IF "stock_quantity" \in d.keys THEN d.stock_quantity ELSE @],
            200)

\* ------------------------------------------------------------- update_stock
\* line 157: the lookup (get_or_404 raises inside the try)
StockBegin(st) ==
    IF st.t.oid \notin Products THEN Raise(st, "404 Not Found")
    ELSE [Load(st, st.t.oid) EXCEPT !.t.pc = "finish"]

\* lines 160-176: the test of the body, the adjustment, the commit and the
\* response
StockFinish(st) ==
    LET p == st.t.oid
        d == st.t.pdata
        r == reduce_stock(st.t.cur[p], d.quantity)
    IN  IF d.action = "" \/ d.quantity = 0
        THEN Return(st, 400, "Action and quantity are required")
        ELSE IF d.action = "add"
             THEN CommitAndReturn(
                      [st EXCEPT !.t.cur[p] = increase_stock(@, d.quantity)], 200)
        ELSE IF d.action = "subtract"
             THEN IF ~r.ok THEN Return(st, 400, "Insufficient stock")
                  ELSE CommitAndReturn([st EXCEPT !.t.cur[p] = r.stock], 200)
        ELSE Return(st, 400, "Invalid action")

\* -------------------------------------------------------- running a request
\* one step of a request: up to its next access to the store
Step(st) ==
    CASE st.t.op = "create" /\ st.t.pc = "begin" -> CreateBegin(st)
      [] st.t.op = "create" /\ st.t.pc = "item" -> CreateItem(st)
      [] st.t.op = "create" /\ st.t.pc = "finish" -> CreateFinish(st)
      [] st.t.op = "cancel" /\ st.t.pc = "begin" -> CancelBegin(st)
      [] st.t.op = "cancel" /\ st.t.pc = "item" -> CancelItem(st)
      [] st.t.op = "cancel" /\ st.t.pc = "finish" -> CancelFinish(st)
      [] st.t.op = "update" /\ st.t.pc = "begin" -> UpdateBegin(st)
      [] st.t.op = "product" /\ st.t.pc = "begin" -> ProductBegin(st)
      [] st.t.op = "product" /\ st.t.pc = "finish" -> ProductFinish(st)
      [] st.t.op = "stock" /\ st.t.pc = "begin" -> StockBegin(st)
      [] st.t.op = "stock" /\ st.t.pc = "finish" -> StockFinish(st)
      [] OTHER -> st

\* a request run from its first line to its response with no other request
\* in between
RECURSIVE Run(_)
Run(st) == IF st.t.pc = "done" THEN st ELSE Run(Step(st))

Handle(t) ==
    Run([db |-> [stock |-> stock, price |-> price, orders |-> orders], nextId |-> nextId,
         now |-> now, t |-> t])

\* ---------------------------------------------- requests served one by one
\* A request is taken when no other is being handled and is run to its
\* response in one step.
Init ==
    /\ stock = InitStock
    /\ price = Price
    /\ orders = [o \in {} |-> NoOrder]
    /\ nextId = 1
    /\ now = 1
    /\ resp = NoResp
    /\ pre = InitStock
    /\ sess = [w \in Procs |-> NoTxn]
    /\ nreq = [w \in Procs |-> 0]

Served(t) ==
    LET st == Handle(t) IN
    /\ stock' = st.db.stock
    /\ price' = st.db.price
    /\ orders' = st.db.orders
    /\ nextId' = st.nextId
    /\ resp' = st.t.ret
    /\ pre' = stock
    /\ UNCHANGED <<now, sess, nreq>>

\* POST /api/orders
CreateOrder ==
    /\ sess = [w \in Procs |-> NoTxn]
    /\ nextId <= MaxTrackedOrders
    /\ \E data \in CreateRequests : Served(NewCreate(data))

\* POST /api/orders with a one-line body
CreateSimple ==
    /\ sess = [w \in Procs |-> NoTxn]
    /\ nextId <= MaxOrders
    /\ \E data \in SimpleRequests : Served(NewCreate(data))

\* POST /api/orders with a one-line body and an order number not drawn before
CreateFresh ==
    /\ sess = [w \in Procs |-> NoTxn]
    /\ nextId <= MaxTrackedOrders
    /\ \E data \in SimpleRequests :
          data.order_number = nextId /\ Served(NewCreate(data))

\* DELETE /api/orders/<order_id>
CancelOrder ==
    /\ sess = [w \in Procs |-> NoTxn]
    /\ \E oid \in 1..nextId : Served(NewCancel(oid))

\* PUT /api/orders/<order_id>/status
UpdateOrderStatus ==
    /\ sess = [w \in Procs |-> NoTxn]
    /\ \E oid \in 1..nextId, new_status \in RequestStatuses :
          Served(NewUpdate(oid, new_status))

\* time passes between requests
Tick ==
    /\ now < MaxTime
    /\ now' = now + 1
    /\ UNCHANGED <<stock, price, orders, nextId, resp, pre, sess, nreq>>

Next == CreateOrder \/ CancelOrder \/ UpdateOrderStatus

Spec == Init /\ [][Next]_vars

\* create and cancel requests only, over one-line orders
LedgerNext == CreateSimple \/ CancelOrder

LedgerSpec == Init /\ [][LedgerNext]_vars

\* the life of an order, with the clock running
ClockNext == CreateFresh \/ CancelOrder \/ UpdateOrderStatus \/ Tick

ClockSpec == Init /\ [][ClockNext]_vars

\* POST /api/orders with well-formed lines and a shipping amount
CreatePriced ==
    /\ sess = [w \in Procs |-> NoTxn]
    /\ nextId <= MaxTrackedOrders
    /\ \E data \in PricedRequests :
          data.order_number = nextId /\ Served(NewCreate(data))

\* PUT /api/products/<product_id> with a new price
UpdatePrice ==
    /\ sess = [w \in Procs |-> NoTxn]
    /\ \E pid \in ProductIds, pdata \in PriceUpdates :
          Served(NewUpdateProduct(pid, pdata))

\* orders and their amounts, with product prices changing between requests
PriceNext == CreatePriced \/ UpdatePrice \/ CancelOrder \/ UpdateOrderStatus

PriceSpec == Init /\ [][PriceNext]_vars

\* ------------------------------------------------ direct admin adjustment
\* a request of the product endpoints is served and counted
AdminServed(t) ==
    LET st == Handle(t) IN
    /\ stock' = st.db.stock
    /\ price' = st.db.price
    /\ orders' = st.db.orders
    /\ nextId' = st.nextId
    /\ resp' = st.t.ret
    /\ pre' = stock
    /\ nreq' = [nreq EXCEPT ![1] = @ + 1]
    /\ UNCHANGED <<now, sess>>

\* PUT /api/products/<product_id>/stock
UpdateStock ==
    /\ sess = [w \in Procs |-> NoTxn]
    /\ nreq[1] < MaxCalls
    /\ \E pid \in ProductIds, sdata \in StockUpdates :
          AdminServed(NewUpdateStock(pid, sdata))

\* PUT /api/products/<product_id> with any of price and stock_quantity
UpdateProduct ==
    /\ sess = [w \in Procs |-> NoTxn]
    /\ nreq[1] < MaxCalls
    /\ \E pid \in ProductIds, pdata \in ProductUpdates :
          AdminServed(NewUpdateProduct(pid, pdata))

AdminNext == UpdateStock \/ UpdateProduct

AdminSpec == Init /\ [][AdminNext]_vars

\* ------------------------------------- several lines of the same product
\* the create requests of RepeatSpec: well-formed lines of known products for
\* a known customer, the same product on several lines included
RepeatItems == {ItemRequest(1, 1), ItemRequest(2, 1), ItemRequest(2, 2)}
RepeatRequests ==
    [customer_id : Customers, items : SeqsUpTo(RepeatItems, MaxItems) \ {<<>>},
     order_number : OrderNumbers, totals_ok : {TRUE}, shipping_amount : {0}]

\* POST /api/orders with lines that may repeat a product
CreateRepeated ==
    /\ sess = [w \in Procs |-> NoTxn]
    /\ nextId <= MaxOrders
    /\ \E data \in RepeatRequests : Served(NewCreate(data))

RepeatNext == CreateRepeated \/ CancelOrder

RepeatSpec == Init /\ [][RepeatNext]_vars

\* ------------------------------------------- calculate_totals on its own
\* One order of any lines and shipping amount, whose three amounts may be
\* stale, on which calculate_totals is called again and again.  Whether the
\* arithmetic completes is a matter of the operand types and is the same at
\* every call of a run.
OrderLines ==
    {calculate_line_total([product_id |-> p, quantity |-> q, unit_price |-> u,
                           line_total |-> 0]) :
        p \in Products, q \in {1, 2}, u \in {250, 1999}}
StaleAmounts == {0, 777}
StoredOrders ==
    {[NoOrder EXCEPT !.id = 1, !.order_number = 1, !.customer_id = 1,
                     !.status = STATUS_PENDING, !.created_at = 1, !.updated_at = 1,
                     !.items = l, !.shipping_amount = sh, !.subtotal = a[1],
                     !.tax_amount = a[2], !.total_amount = a[3]] :
        l \in SeqsUpTo(OrderLines, MaxItems), sh \in {0, 599},
        a \in [1..3 -> StaleAmounts]}

TotalsInit ==
    /\ stock = InitStock
    /\ price = Price
    /\ \E order \in StoredOrders : orders = <<order>>
    /\ nextId = 2
    /\ now = 1
    /\ resp = NoResp
    /\ pre = InitStock
    /\ \E ok \in BOOLEAN :
          sess = [w \in Procs |-> [NoTxn EXCEPT !.data.totals_ok = ok]]
    /\ nreq = [w \in Procs |-> 0]

\* order.calculate_totals()
Recalculate ==
    /\ nreq[1] < MaxCalls
    /\ orders' = [orders EXCEPT ![1] = IF sess[1].data.totals_ok
                                       THEN calculate_totals(@)
                                       ELSE calculate_totals_raising(@)]
    /\ resp' = [NoResp EXCEPT !.op = "totals", !.order_id = 1,
                              !.code = IF sess[1].data.totals_ok THEN 200 ELSE 500]
    /\ nreq' = [nreq EXCEPT ![1] = @ + 1]
    /\ UNCHANGED <<stock, price, nextId, now, pre, sess>>

TotalsNext == Recalculate

TotalsSpec == TotalsInit /\ [][TotalsNext]_vars

\* ----------------------------------------------- reduce_stock on its own
\* Products of any stock, on which reduce_stock is called with any quantity,
\* a negative one or zero included.  resp holds the product (order_id), the
\* quantity (at) and the value returned (status) of the last call.
Quantities == -1..(MaxStock + 1)

ReserveInit ==
    /\ stock \in [Products -> 0..MaxStock]
    /\ price = Price
    /\ orders = [o \in {} |-> NoOrder]
    /\ nextId = 1
    /\ now = 1
    /\ resp = NoResp
    /\ pre = stock
    /\ sess = [w \in Procs |-> NoTxn]
    /\ nreq = [w \in Procs |-> 0]

\* product.reduce_stock(quantity)
Reserve ==
    /\ nreq[1] < MaxCalls
    /\ \E p \in Products, q \in Quantities :
          LET r == reduce_stock(stock[p], q) IN
          /\ stock' = [stock EXCEPT ![p] = r.stock]
          /\ resp' = [NoResp EXCEPT !.op = "reduce_stock", !.order_id = p, !.at = q,
                                    !.status = IF r.ok THEN "True" ELSE "False"]
    /\ pre' = stock
    /\ nreq' = [nreq EXCEPT ![1] = @ + 1]
    /\ UNCHANGED <<price, orders, nextId, now, sess>>

ReserveNext == Reserve

ReserveSpec == ReserveInit /\ [][ReserveNext]_vars

\* --------------------------------------------- requests served concurrently
\* Two workers, each serving one request at a time in its own session and
\* transaction; the steps of their requests interleave.
ConcStock == [p \in Products |-> 5]

ConcRequests ==
    [customer_id : {1},
     items : {<<ItemRequest(1, 3)>>, <<ItemRequest(2, 3), ItemRequest(1, 3)>>},
     order_number : OrderNumbers, totals_ok : BOOLEAN, shipping_amount : {0}]

ConcInit ==
    /\ stock = ConcStock
    /\ price = Price
    /\ orders = [o \in {} |-> NoOrder]
    /\ nextId = 1
    /\ now = 1
    /\ resp = NoResp
    /\ pre = ConcStock
    /\ sess = [w \in Procs |-> NoTxn]
    /\ nreq = [w \in Procs |-> 0]

Free(w) == sess[w].pc \in {"idle", "done"} /\ nreq[w] < MaxProcRequests

\* a worker receives POST /api/orders
ConcCreate(w) ==
    /\ Free(w)
    /\ nextId <= MaxOrders
    /\ \E data \in ConcRequests : sess' = [sess EXCEPT ![w] = NewCreate(data)]
    /\ UNCHANGED <<stock, price, orders, nextId, now, resp, pre, nreq>>

\* a worker receives DELETE /api/orders/<order_id>
ConcCancel(w) ==
    /\ Free(w)
    /\ \E oid \in OrderIds : sess' = [sess EXCEPT ![w] = NewCancel(oid)]
    /\ UNCHANGED <<stock, price, orders, nextId, now, resp, pre, nreq>>

\* a worker runs its request up to the next access to the store
ConcStep(w) ==
    /\ sess[w].pc \notin {"idle", "done"}
    /\ LET st == Step([db |-> [stock |-> stock, price |-> price, orders |-> orders],
                       nextId |-> nextId,
                       now |-> now, t |-> sess[w]])
       IN  /\ stock' = st.db.stock
           /\ price' = st.db.price
           /\ orders' = st.db.orders
           /\ nextId' = st.nextId
           /\ sess' = [sess EXCEPT ![w] = st.t]
           /\ IF st.t.pc = "done"
              THEN resp' = st.t.ret /\ nreq' = [nreq EXCEPT ![w] = @ + 1]
              ELSE UNCHANGED <<resp, nreq>>
    /\ UNCHANGED <<now, pre>>

ConcNext == \E w \in Procs : ConcCreate(w) \/ ConcCancel(w) \/ ConcStep(w)

ConcSpec == ConcInit /\ [][ConcNext]_vars

\* ================================================================= claims
\* quantity of product p on the lines of the orders of ids that are not Cancelled
RECURSIVE ActiveQuantity(_, _, _)
ActiveQuantity(ords, ids, p) ==
    IF ids = {} THEN 0
    ELSE LET o == CHOOSE x \in ids : TRUE
         IN  (IF ords[o].status # STATUS_CANCELLED
              THEN LineQuantity(ords[o].items, p) ELSE 0)
             + ActiveQuantity(ords, ids \ {o}, p)

\* C1: a CreateOrder request that fails, at whatever line, leaves the committed
\* store as it was before the request: no order, no order line, and every
\* product's stock unchanged, the products of the lines already reserved in
\* the request included.
C1_AllOrNothing ==
    [][(resp'.op = "create" /\ resp'.code # 201)
          => (stock' = stock /\ orders' = orders)]_vars

\* a create request failed on stock at its second line, after its first line
\* had been reserved
C1_Witness ==
    /\ resp.op = "create"
    /\ resp.error = "Insufficient stock"
    /\ resp.at = 2
    /\ stock = pre

\* the first request of each worker is a create of 3 units of product 1,
\* with different order numbers and totals that compute, and both are answered
TwoCreatesOfThree ==
    /\ \A w \in Procs :
          /\ nreq[w] = 1
          /\ sess[w].pc = "done"
          /\ sess[w].op = "create"
          /\ sess[w].data.items = <<ItemRequest(1, 3)>>
          /\ sess[w].data.totals_ok
    /\ sess[1].data.order_number # sess[2].data.order_number

\* C2: two concurrent CreateOrder requests for 3 units each of a product with
\* stock 5 end with exactly one success, one InsufficientStock failure and a
\* final stock of 2.
C2_ExactlyOneSucceeds ==
    TwoCreatesOfThree =>
        /\ \E w \in Procs :
              /\ sess[w].ret.code = 201
              /\ \A v \in Procs \ {w} :
                    sess[v].ret.code = 400 /\ sess[v].ret.error = "Insufficient stock"
        /\ stock[1] = 2

\* C3: after any sequence of CreateOrder and CancelOrder requests, each
\* product's stock is its initial stock minus the quantities of its lines in
\* the orders that are not Cancelled.
C3_StockConservation ==
    \A p \in Products :
        stock[p] = InitStock[p] - ActiveQuantity(orders, DOMAIN orders, p)

\* an order has just been cancelled while another one is still active
C3_Witness ==
    /\ resp.op = "cancel"
    /\ resp.code = 200
    /\ stock # pre
    /\ \E o \in DOMAIN orders :
          orders[o].status = STATUS_PENDING /\ orders[o].items # <<>>

TransitionTable ==
    {<<STATUS_PENDING, STATUS_PROCESSING>>, <<STATUS_PENDING, STATUS_CANCELLED>>,
     <<STATUS_PROCESSING, STATUS_SHIPPED>>, <<STATUS_PROCESSING, STATUS_CANCELLED>>,
     <<STATUS_SHIPPED, STATUS_DELIVERED>>}

\* this step answers a status request that named the existing order o
UpdateOn(o) == resp'.op = "update" /\ resp'.order_id = o /\ now' = now

\* this step answers a cancel request that named the existing order o
CancelOn(o) == resp'.op = "cancel" /\ resp'.order_id = o /\ now' = now

\* C5: a status request succeeds exactly when (current status, new status) is
\* in the transition table; otherwise, the same status and skipped statuses
\* included, it fails with the invalid-transition error and the order keeps
\* its status, updated_at, shipped_date and delivered_date.
C5_TransitionTable ==
    [][\A o \in DOMAIN orders :
          UpdateOn(o) =>
              IF <<orders[o].status, resp'.status>> \in TransitionTable
              THEN resp'.code = 200 /\ orders'[o].status = resp'.status
              ELSE /\ resp'.code = 400
                   /\ resp'.status \in VALID_STATUSES => resp'.error = "Cannot transition"
                   /\ orders'[o] = orders[o]]_vars

\* a request to take a Pending order straight to Shipped has been refused
C5_Witness ==
    /\ resp.op = "update"
    /\ resp.code = 400
    /\ resp.error = "Cannot transition"
    /\ resp.status = STATUS_SHIPPED
    /\ resp.order_id \in DOMAIN orders
    /\ orders[resp.order_id].status = STATUS_PENDING

\* C6: an order that is Delivered or Cancelled never changes again, and every
\* status or cancel request that names it fails and changes no stock.
C6_TerminalIsFinal ==
    [][\A o \in DOMAIN orders :
          orders[o].status \in {STATUS_DELIVERED, STATUS_CANCELLED} =>
              /\ orders'[o] = orders[o]
              /\ (UpdateOn(o) \/ CancelOn(o)) => (resp'.code = 400 /\ stock' = stock)]_vars

\* a request on a Delivered order has been refused
C6_Witness ==
    /\ resp.op \in {"update", "cancel"}
    /\ resp.code = 400
    /\ resp.order_id \in DOMAIN orders
    /\ orders[resp.order_id].status = STATUS_DELIVERED
    /\ orders[resp.order_id].delivered_date # NoDate

\* C7: a cancel request on an order that is not Pending fails with HTTP 400
\* and changes neither the orders nor any stock; so does it on a Processing
\* order.
C7_OnlyPendingCancellable ==
    [][\A o \in DOMAIN orders :
          (CancelOn(o) /\ orders[o].status # STATUS_PENDING) =>
              /\ resp'.code = 400
              /\ resp'.error = "Only pending orders can be cancelled"
              /\ orders' = orders
              /\ stock' = stock]_vars

\* a cancel request on a Processing order has been refused
C7_Witness ==
    /\ resp.op = "cancel"
    /\ resp.code = 400
    /\ resp.order_id \in DOMAIN orders
    /\ orders[resp.order_id].status = STATUS_PROCESSING

\* C8: a successful cancel puts each line's quantity back on its product and
\* sets the order Cancelled in the same commit; right after the create of the
\* order it leaves every stock as it was before that create; a cancel right
\* after a successful cancel of the same order fails and changes no stock.
C8_CancelUndoesCreate ==
    [][\A o \in DOMAIN orders :
          CancelOn(o) =>
              /\ resp'.code = 200 =>
                    /\ orders[o].status = STATUS_PENDING
                    /\ orders'[o].status = STATUS_CANCELLED
                    /\ \A p \in Products :
                          stock'[p] = stock[p] + LineQuantity(orders[o].items, p)
                    /\ (resp.op = "create" /\ resp.code = 201 /\ resp.order_id = o)
                          => stock' = pre
              /\ (resp.op = "cancel" /\ resp.code = 200 /\ resp.order_id = o) =>
                    /\ resp'.code = 400
                    /\ resp'.error = "Only pending orders can be cancelled"
                    /\ stock' = stock]_vars

\* the only order there is has been cancelled and the stock is the initial one
C8_Witness ==
    /\ resp.op = "cancel"
    /\ resp.code = 200
    /\ stock # pre
    /\ stock = InitStock
    /\ DOMAIN orders = {resp.order_id}
    /\ orders[resp.order_id].status = STATUS_CANCELLED

\* C9: a status request, whatever the current and the requested status,
\* changes no product's stock and no order's lines or amounts, and adds or
\* removes no order.
C9_UpdateLeavesInventory ==
    [][(resp'.op = "update" /\ now' = now) =>
          /\ stock' = stock
          /\ DOMAIN orders' = DOMAIN orders
          /\ \A o \in DOMAIN orders :
                /\ orders'[o].items = orders[o].items
                /\ orders'[o].subtotal = orders[o].subtotal
                /\ orders'[o].tax_amount = orders[o].tax_amount
                /\ orders'[o].shipping_amount = orders[o].shipping_amount
                /\ orders'[o].total_amount = orders[o].total_amount]_vars

\* a status request has taken an order with lines to Cancelled
C9_Witness ==
    /\ resp.op = "update"
    /\ resp.code = 200
    /\ resp.status = STATUS_CANCELLED
    /\ resp.order_id \in DOMAIN orders
    /\ orders[resp.order_id].status = STATUS_CANCELLED
    /\ orders[resp.order_id].items # <<>>
    /\ stock # InitStock

\* C10: a successful transition sets status to the new status and updated_at
\* to the current time, shipped_date to the current time exactly when the new
\* status is Shipped and delivered_date exactly when it is Delivered, and
\* leaves the two dates as they were otherwise.
C10_TransitionStamps ==
    [][\A o \in DOMAIN orders :
          ((UpdateOn(o) \/ CancelOn(o)) /\ resp'.code = 200) =>
              LET new == IF resp'.op = "cancel" THEN STATUS_CANCELLED ELSE resp'.status
              IN  /\ orders'[o].status = new
                  /\ orders'[o].updated_at = now
                  /\ orders'[o].shipped_date =
                        IF new = STATUS_SHIPPED THEN now ELSE orders[o].shipped_date
                  /\ orders'[o].delivered_date =
                        IF new = STATUS_DELIVERED THEN now ELSE orders[o].delivered_date]_vars

\* an order shipped earlier has been delivered at a later time
C10_Witness ==
    /\ resp.op = "update"
    /\ resp.code = 200
    /\ resp.status = STATUS_DELIVERED
    /\ resp.order_id \in DOMAIN orders
    /\ orders[resp.order_id].delivered_date = now
    /\ orders[resp.order_id].shipped_date # NoDate
    /\ orders[resp.order_id].shipped_date < now

\* every line of an order carries quantity * unit_price, and the order the sum
\* of its lines and subtotal + tax_amount + shipping_amount
AmountsAddUp(order) ==
    /\ \A k \in 1..Len(order.items) :
          order.items[k].line_total = order.items[k].quantity * order.items[k].unit_price
    /\ order.subtotal = SumLineTotals(order.items)
    /\ order.total_amount = order.subtotal + order.tax_amount + order.shipping_amount

\* the amounts add up and the tax is the cent nearest to 8% of the subtotal
TotalsToTheCent ==
    \A o \in DOMAIN orders :
        /\ AmountsAddUp(orders[o])
        /\ 100 * orders[o].tax_amount - TaxPercent * orders[o].subtotal \in -50..50

C12_TotalsIdempotent ==
    [][(resp.op = "totals" /\ resp'.op = "totals") =>
          /\ orders'[1].subtotal = orders[1].subtotal
          /\ orders'[1].tax_amount = orders[1].tax_amount
          /\ orders'[1].total_amount = orders[1].total_amount]_vars

\* calculate_totals has been called twice on an order with two lines and a
\* shipping amount whose amounts were stale, and the amounts are those of its lines
C12_Witness ==
    /\ resp.op = "totals"
    /\ resp.code = 200
    /\ nreq[1] = 2
    /\ Len(orders[1].items) = 2
    /\ orders[1].shipping_amount > 0
    /\ orders[1].subtotal = SumLineTotals(orders[1].items)
    /\ orders[1].total_amount > orders[1].subtotal + orders[1].shipping_amount

\* C13: the unit_price of every line of a created order is the price its
\* product had when the create request ran, and no request (a product price
\* update, a status request, a cancel, another create) changes the lines, the
\* subtotal, the tax_amount or the total_amount of an order that exists.
C13_PriceSnapshot ==
    [][/\ (resp'.op = "create" /\ resp'.code = 201) =>
             \A k \in 1..Len(orders'[resp'.order_id].items) :
                 LET line == orders'[resp'.order_id].items[k]
                 IN  line.unit_price = price[line.product_id]
       /\ \A o \in DOMAIN orders :
             /\ orders'[o].items = orders[o].items
             /\ orders'[o].subtotal = orders[o].subtotal
             /\ orders'[o].tax_amount = orders[o].tax_amount
             /\ orders'[o].total_amount = orders[o].total_amount]_vars

\* the price of a product has just been changed while an order has a line of
\* that product at the earlier price; the order was created after an earlier
\* price change of its other product
C13_Witness ==
    /\ resp.op = "product"
    /\ resp.code = 200
    /\ \E o \in DOMAIN orders :
          /\ Len(orders[o].items) = 2
          /\ \E k \in 1..2 :
                /\ orders[o].items[k].product_id = resp.order_id
                /\ orders[o].items[k].unit_price # price[resp.order_id]
          /\ \E k \in 1..2 :
                /\ orders[o].items[k].product_id # resp.order_id
                /\ orders[o].items[k].unit_price # Price[orders[o].items[k].product_id]

\* the request has a known customer and at least one line, every line is
\* well formed and names a known product, and the stock of every product
\* covers the quantities asked of it
Accepts(data) ==
    /\ data.customer_id \in Customers
    /\ data.items # <<>>
    /\ \A k \in 1..Len(data.items) : ~Stops(data.items[k])
    /\ \A p \in Products : LineQuantity(data.items, p) <= stock[p]

\* this step answered 201 and committed one Pending order with one line per
\* entry of the request, in order and at the current price, and the stock
\* less the quantities asked
Created(data) ==
    /\ resp'.code = 201
    /\ resp'.order_id \notin DOMAIN orders
    /\ DOMAIN orders' = DOMAIN orders \cup {resp'.order_id}
    /\ \A o \in DOMAIN orders : orders'[o] = orders[o]
    /\ LET order == orders'[resp'.order_id] IN
          /\ order.status = STATUS_PENDING
          /\ Len(order.items) = Len(data.items)
          /\ \A k \in 1..Len(data.items) :
                /\ order.items[k].product_id = data.items[k].product_id
                /\ order.items[k].quantity = data.items[k].quantity
                /\ order.items[k].unit_price = price[data.items[k].product_id]
    /\ \A p \in Products : stock'[p] = stock[p] - LineQuantity(data.items, p)

\* such a request succeeds when calculate_totals completes and the order
\* number drawn for it is not that of an order
CreatedWhenComputed ==
    [][\A data \in CreateRequests :
          (/\ Accepts(data)
           /\ data.totals_ok
           /\ ~NumberTaken([orders |-> orders], data.order_number)
           /\ Served(NewCreate(data))) => Created(data)]_vars

\* C14: a create request with a known customer, a non-empty list of
\* well-formed lines, every product known and every quantity in stock is
\* answered 201 and commits one Pending order, one line per entry in request
\* order at the product's current price, and each product's stock less the
\* quantities asked of it.
C14_CreateSucceeds ==
    [][\A data \in CreateRequests :
          (Accepts(data) /\ Served(NewCreate(data))) => Created(data)]_vars

CollidesOnce(data) ==
    /\ NumberTaken([orders |-> orders], data.order_number)
    /\ \E n \in OrderNumbers : ~NumberTaken([orders |-> orders], n)

\* C16: a create request whose generated order number collides with that of
\* an existing order is retried with a fresh number before any failure is
\* surfaced: with a non-colliding number available the order is created.
C16_RetryOnCollision ==
    [][\A data \in SimpleRequests :
          (/\ Accepts(data)
           /\ data.totals_ok
           /\ CollidesOnce(data)
           /\ Served(NewCreate(data))) => Created(data)]_vars

\* C17: no two committed orders have the same order_number: a create request
\* whose generated number is that of an existing order is rejected by the
\* unique constraint, and the rejected request commits no order, no line and
\* no stock change.
C17_UniqueOrderNumber ==
    [][/\ \A a, b \in DOMAIN orders' :
             a # b => orders'[a].order_number # orders'[b].order_number
       /\ \A data \in SimpleRequests :
             (NumberTaken([orders |-> orders], data.order_number)
                 /\ Served(NewCreate(data)))
             => (resp'.code = 500 /\ stock' = stock /\ orders' = orders)]_vars

\* a create request has just been rejected for its order number, which is
\* that of the order there is
C17_Witness ==
    /\ resp.op = "create"
    /\ resp.code = 500
    /\ resp.error = "IntegrityError"
    /\ Cardinality(DOMAIN orders) = 1
    /\ stock = pre
    /\ stock # InitStock

\* the create requests of Spec that name a customer whose id no customer has
UnknownCustomerRequests ==
    [customer_id : CustomerIds \ (Customers \cup {0}),
     items : ItemLists(ItemRequests, 1), order_number : {1}, totals_ok : {TRUE},
     shipping_amount : {0}]

\* C18 as stated: a create request whose customer_id is given but does not
\* resolve fails with CustomerNotFound (HTTP 404) whatever its lines are, an
\* empty or malformed list included, and changes no state.
C18_CustomerCheckFirst ==
    [][\A data \in UnknownCustomerRequests :
          (resp'.op = "create" /\ Served(NewCreate(data))) =>
              /\ resp'.code = 404
              /\ resp'.error = "Customer not found"
              /\ UNCHANGED <<stock, price, orders, nextId>>]_vars

\* C18 as amended: such a request changes no state and fails with
\* CustomerNotFound (HTTP 404) whatever its lines are, malformed ones
\* included, when its items list is not empty; when the list is empty it
\* fails with the validation error for the items (HTTP 400) instead.
C18_CustomerCheck ==
    [][\A data \in UnknownCustomerRequests :
          (resp'.op = "create" /\ Served(NewCreate(data))) =>
              /\ IF data.items = <<>>
                 THEN resp'.code = 400 /\ resp'.error = "items array is required"
                 ELSE resp'.code = 404 /\ resp'.error = "Customer not found"
              /\ UNCHANGED <<stock, price, orders, nextId>>]_vars

\* a create request has just been refused for its customer, and nothing has
\* changed
C18_Witness ==
    /\ resp.op = "create"
    /\ resp.code = 404
    /\ resp.error = "Customer not found"
    /\ stock = pre
    /\ nextId = 1

\* The entry of items, from the k-th on, that is the first to lack a key, to
\* name no product or to ask more than stk has left of its product once the
\* entries before it are served, with the error that goes with it; at is 0 if
\* there is no such entry.
RECURSIVE FirstFailing(_, _, _)
FirstFailing(items, k, stk) ==
    IF k > Len(items) THEN [at |-> 0, code |-> 0, error |-> ""]
    ELSE IF {"product_id", "quantity"} \ items[k].keys # {}
         THEN [at |-> k, code |-> 400,
               error |-> "Each item must have product_id and quantity"]
    ELSE IF items[k].product_id \notin Products
         THEN [at |-> k, code |-> 404, error |-> "Product not found"]
    ELSE IF stk[items[k].product_id] < items[k].quantity
         THEN [at |-> k, code |-> 400, error |-> "Insufficient stock"]
    ELSE FirstFailing(items, k + 1,
             [stk EXCEPT ![items[k].product_id] = @ - items[k].quantity])

\* the create requests of Spec for a known customer whose items are empty or
\* have an entry without product_id or quantity
ShapelessRequests ==
    {d \in CreateRequests :
        /\ d.customer_id \in Customers
        /\ \/ d.items = <<>>
           \/ \E k \in 1..Len(d.items) : d.items[k] = MalformedItem}

\* Such a request commits nothing and, when the order number drawn for it is
\* free, fails at the first entry that lacks a key, names no product or is
\* short of stock, with the error of that entry, the entries before it having
\* been reserved in the session.
ShapeCheckedInTurn ==
    [][\A data \in ShapelessRequests :
          (resp'.op = "create" /\ Served(NewCreate(data))) =>
              /\ stock' = stock /\ orders' = orders
              /\ ~NumberTaken([orders |-> orders], data.order_number) =>
                    IF data.items = <<>>
                    THEN /\ resp'.code = 400
                         /\ resp'.error = "items array is required"
                         /\ resp'.at = 0
                    ELSE LET f == FirstFailing(data.items, 1, stock)
                         IN  /\ resp'.at = f.at
                             /\ resp'.code = f.code
                             /\ resp'.error = f.error]_vars

\* C19: a create request for a known customer whose items are empty, or have
\* at any position an entry without product_id or quantity, fails with the
\* validation error (HTTP 400), never with ProductNotFound or
\* InsufficientStock because of an earlier entry, and commits nothing.
C19_ShapeCheckedFirst ==
    [][\A data \in ShapelessRequests :
          (resp'.op = "create" /\ Served(NewCreate(data))) =>
              /\ resp'.code = 400
              /\ resp'.error \in {"items array is required",
                                  "Each item must have product_id and quantity"}
              /\ stock' = stock /\ orders' = orders]_vars

\* the create requests of Spec for a known customer with a non-empty list of
\* entries that all have product_id and quantity
WellFormedRequests ==
    {d \in CreateRequests :
        /\ d.customer_id \in Customers
        /\ d.items # <<>>
        /\ \A k \in 1..Len(d.items) : d.items[k] # MalformedItem}

\* the response is that of the first failing entry of the request, if it has
\* one, and nothing is committed then; it is no error of an entry otherwise
AnswersFirstFailing(data) ==
    LET f == FirstFailing(data.items, 1, stock) IN
    IF f.at # 0
    THEN /\ resp'.at = f.at
         /\ resp'.code = f.code
         /\ resp'.error = f.error
         /\ stock' = stock /\ orders' = orders
    ELSE resp'.at = 0

\* when the order number drawn for it is free, a request of well-formed
\* entries is answered with the error of its first failing entry
LinesInTurn ==
    [][\A data \in WellFormedRequests :
          (/\ resp'.op = "create"
           /\ ~NumberTaken([orders |-> orders], data.order_number)
           /\ Served(NewCreate(data))) => AnswersFirstFailing(data)]_vars

\* C20: create_order takes well-formed entries strictly in the given order,
\* resolving and then reserving each: the error returned is that of the
\* first failing entry (ProductNotFound with HTTP 404 if its product is
\* missing, InsufficientStock with HTTP 400 otherwise) and no entry after it
\* is resolved or reserved.
C20_FirstFailingLine ==
    [][\A data \in SimpleRequests :
          (resp'.op = "create" /\ Served(NewCreate(data)))
              => AnswersFirstFailing(data)]_vars

\* C21: reduce_stock, for every stock s and quantity q, returns success and
\* leaves the stock s - q if s >= q, and returns failure and leaves the stock
\* s otherwise; in both cases no other product and no other field changes.
C21_ReduceStock ==
    [][resp'.op = "reduce_stock" =>
          LET p == resp'.order_id
              q == resp'.at
          IN  /\ IF stock[p] >= q
                 THEN resp'.status = "True" /\ stock'[p] = stock[p] - q
                 ELSE resp'.status = "False" /\ stock'[p] = stock[p]
              /\ \A r \in Products \ {p} : stock'[r] = stock[r]
              /\ price' = price
              /\ orders' = orders]_vars

\* the second call of reduce_stock has just taken the whole stock a product
\* had before it
C21_Witness ==
    /\ resp.op = "reduce_stock"
    /\ resp.status = "True"
    /\ resp.at > 0
    /\ pre[resp.order_id] = resp.at
    /\ stock[resp.order_id] = 0
    /\ nreq[1] = 2

\* this step answers a cancel or status request that named no existing order
OnMissingOrder == resp'.op \in {"cancel", "update"} /\ resp'.order_id \notin DOMAIN orders

\* such a request changes no order and no stock
MissingOrderChangesNothing ==
    [][OnMissingOrder => (stock' = stock /\ orders' = orders)]_vars

\* C22: a cancel or status request with an order id that does not resolve
\* fails with the not-found error (HTTP 404), which a persistence failure
\* (HTTP 500) is not, and changes no order and no stock.
C22_OrderNotFound ==
    [][OnMissingOrder =>
          /\ resp'.code = 404
          /\ stock' = stock
          /\ orders' = orders]_vars

C24_DatesFollowStatus ==
    \A o \in DOMAIN orders :
        /\ (orders[o].shipped_date # NoDate)
              <=> (orders[o].status \in {STATUS_SHIPPED, STATUS_DELIVERED})
        /\ (orders[o].delivered_date # NoDate) <=> (orders[o].status = STATUS_DELIVERED)

\* an order is Delivered and has both dates, the delivery after the shipping
C24_Witness ==
    \E o \in DOMAIN orders :
        /\ orders[o].status = STATUS_DELIVERED
        /\ orders[o].shipped_date # NoDate
        /\ orders[o].delivered_date > orders[o].shipped_date

\* C25: the statuses an order goes through are a prefix of Pending,
\* Processing, Shipped, Delivered, possibly ended by Cancelled right after
\* Pending or Processing: an order starts Pending, no order disappears, and
\* every change of status is a pair of the transition table, so that no
\* status moves back, Shipped is reached from Processing only and a Shipped
\* order is never Cancelled.
C25_StatusHistory ==
    [][/\ DOMAIN orders \subseteq DOMAIN orders'
       /\ \A o \in DOMAIN orders' :
             IF o \in DOMAIN orders
             THEN \/ orders'[o].status = orders[o].status
                  \/ <<orders[o].status, orders'[o].status>> \in TransitionTable
             ELSE orders'[o].status = STATUS_PENDING]_vars

\* a status request to cancel a Shipped order has just been refused
C25_Witness ==
    /\ resp.op = "update"
    /\ resp.code = 400
    /\ resp.status = STATUS_CANCELLED
    /\ resp.order_id \in DOMAIN orders
    /\ orders[resp.order_id].status = STATUS_SHIPPED

\* the request has two lines or more of one product
RepeatsProduct(data) ==
    \E j, k \in 1..Len(data.items) :
        j # k /\ data.items[j].product_id = data.items[k].product_id

\* the lines of the request ask, of some product, more than it has in stock
AsksTooMuch(data) == \E p \in Products : LineQuantity(data.items, p) > stock[p]

\* when the order number drawn for it is free, a request is answered 201 only
\* if the quantities its lines ask of each product add up to at most the
\* product's stock, and is refused with InsufficientStock, the stock
\* unchanged, if they add up to more
CumulativeWhenFree ==
    [][\A data \in RepeatRequests :
          (/\ resp'.op = "create"
           /\ RepeatsProduct(data)
           /\ ~NumberTaken([orders |-> orders], data.order_number)
           /\ Served(NewCreate(data))) =>
              IF AsksTooMuch(data)
              THEN /\ resp'.code = 400
                   /\ resp'.error = "Insufficient stock"
                   /\ stock' = stock
              ELSE resp'.code = 201]_vars

\* C26: when a create request has several lines of the same product, the
\* stock is tested against their sum: the request succeeds only if the
\* quantities asked of each product add up to at most its stock at the start
\* of the request, and when they add up to more it fails with
\* InsufficientStock and the committed stock is unchanged.
C26_CumulativeCheck ==
    [][\A data \in RepeatRequests :
          (resp'.op = "create" /\ RepeatsProduct(data) /\ Served(NewCreate(data))) =>
              /\ resp'.code = 201 => ~AsksTooMuch(data)
              /\ AsksTooMuch(data) =>
                    /\ resp'.code = 400
                    /\ resp'.error = "Insufficient stock"
                    /\ stock' = stock]_vars

PositiveAdjustmentsAreSafe ==
    [][\A pid \in Products, sdata \in StockUpdates :
          (/\ resp'.op = "stock"
           /\ sdata.quantity > 0
           /\ stock[pid] >= 0
           /\ AdminServed(NewUpdateStock(pid, sdata))) =>
              /\ stock'[pid] >= 0
              /\ (sdata.action = "subtract" /\ sdata.quantity > stock[pid]) =>
                    (resp'.code = 400 /\ stock' = stock)]_vars

\* C28: after any call of the stock adjustment (add or subtract with any
\* nonzero integer quantity) or of the product update on a product whose
\* stock is >= 0, the stock of the product is still >= 0; a subtract of more
\* than the current stock is refused with HTTP 400 and leaves the stock
\* unchanged.
C28_AdjustmentKeepsStock ==
    [][/\ \A pid \in Products :
             (resp'.op \in {"stock", "product"} /\ resp'.order_id = pid /\ stock[pid] >= 0)
                 => stock'[pid] >= 0
       /\ \A pid \in Products, sdata \in StockUpdates :
             (/\ resp'.op = "stock"
              /\ sdata.action = "subtract"
              /\ sdata.quantity > stock[pid]
              /\ AdminServed(NewUpdateStock(pid, sdata))) =>
                 (resp'.code = 400 /\ stock' = stock)]_vars

====
